---- MODULE Spec2Model ----
(***************************************************************************)
(* The "get" command of the Redfish utility (GetCommand.run and            *)
(* GetCommand.getworkerfunction).  One invocation of run is one step; the  *)
(* collaborators (argument parser, app.select, app.getprops, the UI        *)
(* renderers, the logout command, cmdbase) are opaque: what they return is *)
(* an input of the step, and every call made to them is logged.            *)
(*                                                                         *)
(* A Python string is a sequence of one-character strings, so that         *)
(* lower(), startswith(), "in", split(), strip() and "+" are computed.     *)
(* A Python dict is a sequence of [key, val] entries in insertion order.   *)
(***************************************************************************)
EXTENDS Integers, Sequences, FiniteSets, TLC

\* ------------------------------------------------------------------ bounds
\* longest --filter text enumerated by SpecFilter
MaxFilterLen == 5
\* most property arguments on one command line
MaxArgs == 1

\* ----------------------------------------------------------------- strings
UpperCase ==
  << "A", "B", "C", "D", "E", "F", "G", "H", "I", "J", "K", "L", "M",
     "N", "O", "P", "Q", "R", "S", "T", "U", "V", "W", "X", "Y", "Z" >>

LowerCase ==
  << "a", "b", "c", "d", "e", "f", "g", "h", "i", "j", "k", "l", "m",
     "n", "o", "p", "q", "r", "s", "t", "u", "v", "w", "x", "y", "z" >>

\* the characters in use, in code-point order (what sorted() compares)
CodePoints ==
  << " ", "\"", "'", ".", "/", "0", "1", "=", "@" >> \o UpperCase \o << "_" >> \o LowerCase

IndexIn(c, s) == CHOOSE i \in DOMAIN s : s[i] = c

ord(c) == IndexIn(c, CodePoints)

IsUpper(c) == \E i \in DOMAIN UpperCase : UpperCase[i] = c

\* str.lower()
lower(s) == [i \in DOMAIN s |-> IF IsUpper(s[i]) THEN LowerCase[IndexIn(s[i], UpperCase)] ELSE s[i]]

\* str.startswith(p)
startswith(s, p) == Len(s) >= Len(p) /\ SubSeq(s, 1, Len(p)) = p

\* p in s
str_in(p, s) == \E i \in 0..(Len(s) - Len(p)) : SubSeq(s, i + 1, i + Len(p)) = p

\* a < b on strings, as Python compares them
str_lt(a, b) ==
  \/ \E i \in 1..Len(a) :
        /\ i <= Len(b)
        /\ SubSeq(a, 1, i - 1) = SubSeq(b, 1, i - 1)
        /\ ord(a[i]) < ord(b[i])
  \/ Len(a) < Len(b) /\ SubSeq(b, 1, Len(a)) = a

\* str.strip(): whitespace off both ends
RECURSIVE lstrip(_)
lstrip(s) == IF s # << >> /\ Head(s) = " " THEN lstrip(Tail(s)) ELSE s

RECURSIVE rstrip(_)
rstrip(s) == IF s # << >> /\ s[Len(s)] = " " THEN rstrip(SubSeq(s, 1, Len(s) - 1)) ELSE s

strip(s) == rstrip(lstrip(s))

\* str.split(sep) for a one-character separator: the list of fields
RECURSIVE split(_, _)
split(s, sep) ==
  IF \E i \in DOMAIN s : s[i] = sep
  THEN LET i == CHOOSE j \in DOMAIN s : s[j] = sep /\ \A k \in 1..(j - 1) : s[k] # sep
       IN  << SubSeq(s, 1, i - 1) >> \o split(SubSeq(s, i + 1, Len(s)), sep)
  ELSE << s >>

\* ------------------------------------------------------------------- dicts
\* A value is a scalar or a nested dict.
Scalar(n) == [kind |-> "scalar", s |-> n, m |-> << >>]
Mapping(d) == [kind |-> "map", s |-> 0, m |-> d]
Entry(k, v) == [key |-> k, val |-> v]

dict_keys(d) == { d[i].key : i \in DOMAIN d }

dict_get(d, k) == d[CHOOSE i \in DOMAIN d : d[i].key = k].val

\* d[k] = v: an existing key keeps its place, a new key goes last
dict_set(d, k, v) ==
  IF k \in dict_keys(d)
  THEN [i \in DOMAIN d |-> IF d[i].key = k THEN Entry(k, v) ELSE d[i]]
  ELSE Append(d, Entry(k, v))

\* d.update(e)
RECURSIVE dict_update(_, _)
dict_update(d, e) ==
  IF e = << >> THEN d
  ELSE dict_update(dict_set(d, Head(e).key, Head(e).val), Tail(e))

\* del d[k]
dict_del(d, k) == SelectSeq(d, LAMBDA x : x.key # k)

\* OrderedDict(sorted(list(d.items()), key=lambda x: x[0]))
RECURSIVE sorted_items(_)
sorted_items(d) ==
  IF d = << >> THEN << >>
  ELSE LET least == CHOOSE x \in { d[i] : i \in DOMAIN d } :
                       \A i \in DOMAIN d : d[i].key = x.key \/ str_lt(x.key, d[i].key)
       IN  << least >> \o sorted_items(dict_del(d, least.key))

\* ------------------------------------------------------- program literals
DOT == "."
BIOS_DOT == << "b", "i", "o", "s", "." >>
ATTRIBUTES_LOWER == << "a", "t", "t", "r", "i", "b", "u", "t", "e", "s" >>
ATTRIBUTES_SLASH == << "A", "t", "t", "r", "i", "b", "u", "t", "e", "s", "/" >>
ATTRIBUTES == << "A", "t", "t", "r", "i", "b", "u", "t", "e", "s" >>
ODATA == << "@", "o", "d", "a", "t", "a" >>

\* rdmc_base_classes.HARDCODEDLIST: the reserved property names (a sample of it)
HARDCODEDLIST == { << "n", "a", "m", "e" >>, << "i", "d" >> }

\* ------------------------------------------------------------ GetCommand.run
NoFilter == [present |-> FALSE, text |-> << >>]
FilterText(s) == [present |-> TRUE, text |-> s]

\* filtr = (None, None)
NoneNone == [none |-> TRUE, sel |-> << >>, val |-> << >>]

\* unquote with only the single quote recognised
unquote_mut(f) ==
  IF f[1] = f[Len(f)] /\ f[1] = "'"
  THEN SubSeq(f, 2, Len(f) - 1)
  ELSE f

\* options.filter[1:-1] when the text starts and ends with the same quote character
unquote(f) ==
  IF f[1] = f[Len(f)] /\ (f[1] = "'" \/ f[1] = "\"")
  THEN SubSeq(f, 2, Len(f) - 1)
  ELSE f

\* (sel, val) = options.filter.split("="); filtr = (sel.strip(), val.strip())
split_pair(parts) == [none |-> FALSE, sel |-> strip(parts[1]), val |-> strip(parts[2])]

\* The filter block of run: the pair, or the error it raises.
parse_filter(filter) ==
  IF ~filter.present \/ filter.text = << >>
  THEN [raised |-> FALSE, filtr |-> NoneNone]
  ELSE LET parts == split(unquote(filter.text), "=")
       IN  IF Len(parts) = 2
           THEN [raised |-> FALSE, filtr |-> split_pair(parts)]
           ELSE [raised |-> TRUE, filtr |-> NoneNone]

\* ---------------------------------------------- GetCommand.getworkerfunction
\* self.rdmc.app.selector gains a "." when it is set and holds none
normalize_selector(selector) ==
  IF selector # << >> /\ ~str_in(<< DOT >>, selector)
  THEN selector \o << DOT >>
  ELSE selector

\* rewrite_arg with the "attributes" test made on the argument as typed
rewrite_arg_mut(arg, selector) ==
  IF startswith(lower(selector), BIOS_DOT) /\ ~str_in(ATTRIBUTES_LOWER, arg)
  THEN ATTRIBUTES_SLASH \o arg
  ELSE arg

\* one element of the rewritten argument list
rewrite_arg(arg, selector) ==
  IF startswith(lower(selector), BIOS_DOT) /\ ~str_in(ATTRIBUTES_LOWER, lower(arg))
  THEN ATTRIBUTES_SLASH \o arg
  ELSE arg

\* the list comprehension over args (an empty list is passed on as it is)
rewrite_args(args, selector) ==
  IF args # << >> THEN [i \in DOMAIN args |-> rewrite_arg(args[i], selector)] ELSE args

\* The local "arg" after the comprehension: None, unless the interpreter lets
\* the comprehension's variable leak (Python 2), where it is the last argument.
NoArg == [none |-> TRUE, text |-> << >>]
arg_after_comprehension(args, leaks) ==
  IF leaks /\ args # << >> THEN [none |-> FALSE, text |-> args[Len(args)]] ELSE NoArg

\* if filtervals[0]: app.select is called
selects(filtervals) == ~filtervals.none /\ filtervals.sel # << >>

\* the first retrieval: getprops(props=args, remread=readonly, nocontent=.., insts=instances)
first_getprops(args, readonly, instances) ==
  [props |-> args, remread |-> readonly, insts |-> instances]

\* second_getprops repeating the first call's refinements
second_getprops_mut(args, readonly, instances) ==
  [props |-> args, remread |-> readonly, insts |-> instances]

\* the retrieval after EmptyRaiseForEAFP: getprops(props=args, nocontent=..)
second_getprops(args, readonly, instances) ==
  [props |-> args, remread |-> FALSE, insts |-> "None"]

\* uselist = False if readonly else uselist
uselist_after(readonly, uselist) == IF readonly THEN FALSE ELSE uselist

\* "bios." in selector.lower() and "Attributes" in list(content.keys())
flattens(content, selector) ==
  str_in(BIOS_DOT, lower(selector)) /\ ATTRIBUTES \in dict_keys(content)

\* content.update(content["Attributes"]) raises unless the entry is a mapping
flatten_raises(content, selector) ==
  flattens(content, selector) /\ dict_get(content, ATTRIBUTES).kind # "map"

\* flatten without the del
flatten_mut(content, selector) ==
  IF str_in(BIOS_DOT, lower(selector)) /\ ATTRIBUTES \in dict_keys(content)
  THEN dict_update(content, dict_get(content, ATTRIBUTES).m)
  ELSE content

\* content.update(content["Attributes"]); del content["Attributes"]
flatten(content, selector) ==
  IF flattens(content, selector)
  THEN dict_del(dict_update(content, dict_get(content, ATTRIBUTES).m), ATTRIBUTES)
  ELSE content

\* the loop over contents: flatten, then sort by key
postprocess(contents, selector) ==
  [i \in DOMAIN contents |-> sorted_items(flatten(contents[i], selector))]

\* keeps_key with the "@odata" test made on the key as spelled
keeps_key_mut(key) == key \notin HARDCODEDLIST /\ ~str_in(ODATA, key)

\* key not in HARDCODEDLIST and "@odata" not in key.lower()
keeps_key(key) == key \notin HARDCODEDLIST /\ ~str_in(ODATA, lower(key))

\* the dict comprehension of the uselist branch
strip_reserved(content) == SelectSeq(content, LAMBDA e : keeps_key(e.key))

\* Contents in hand: one dict (items holds it alone) or a list of dicts.
OneDict(d) == [islist |-> FALSE, items |-> << d >>]
ListOf(l) == [islist |-> TRUE, items |-> l]

\* contents[0] if (type(contents) == list and len(contents) == 1) else contents
collapse(contents) ==
  IF contents.islist /\ Len(contents.items) = 1 THEN OneDict(contents.items[1]) ELSE contents

\* Python truth of contents: a non-empty dict, a non-empty list
truthy(contents) ==
  IF contents.islist THEN contents.items # << >> ELSE contents.items[1] # << >>

\* choose_renderer with the JSON branch not looking at contents
choose_renderer_mut(json, contents) ==
  IF json THEN "print_out_json"
  ELSE IF contents.items # << >> /\ (contents.islist \/ contents.items[1] # << >>)
       THEN "print_out_human_readable"
  ELSE "none"

\* the if / elif of the output: which UI call is made, if any
choose_renderer(json, contents) ==
  IF json /\ truthy(contents) THEN "print_out_json"
  ELSE IF truthy(contents) THEN "print_out_human_readable"
  ELSE "none"

\* ", ".join(str(val) for val in nocontent) is the empty string
join_is_empty(nocontent) == nocontent = {} \/ nocontent = { << >> }

\* the message of the NoContentsFoundForOperationError raised in the except block
no_contents_message(nocontent, arg) ==
  IF join_is_empty(nocontent) /\ ~arg.none /\ arg.text # << >>
  THEN [format |-> "No get contents found for entry: %s", text |-> arg.text]
  ELSE [format |-> "No get contents found for selected type.", text |-> << >>]

\* What one call of getworkerfunction did: the selector it left behind, the
\* collaborator calls in order and how each getprops call answered, what was
\* retrieved, post-processed (processed), in hand at the output branch
\* (output, final) and handed to a renderer, the value returned to a caller
\* that passes results, and how it ended ("returned" or the exception raised).
NoContents == ListOf(<< >>)
NoMessage == [format |-> "", text |-> << >>]

Outcome(selector, calls, select_calls, getprops_calls) ==
  [selector |-> selector, calls |-> calls, select_calls |-> select_calls,
   getprops_calls |-> getprops_calls, answers |-> << >>, ended |-> "returned",
   got |-> FALSE, retrieved |-> << >>, nocontent |-> {},
   processed |-> << >>, uselist |-> FALSE,
   output |-> FALSE, final |-> NoContents,
   result |-> NoContents, rendered |-> NoContents, message |-> NoMessage]

\* A retrieval's answer: EmptyRaiseForEAFP, or the list of dicts it returns
\* and the property names it adds to nocontent.
Raises == [raises |-> TRUE, contents |-> << >>, nocontent |-> {}]
Returns(contents, nocontent) == [raises |-> FALSE, contents |-> contents, nocontent |-> nocontent]

\* the calls that follow the output: the logout command, when options.logout
logout_calls(logout) == IF logout THEN << "logout.run" >> ELSE << >>

\* From "for ind, content in enumerate(contents)" to the end of the function.
after_retrieval(base, contents, nocontent, uselist, results, options, arg) ==
  LET got == [base EXCEPT !.got = TRUE, !.retrieved = contents,
                          !.nocontent = nocontent, !.uselist = uselist]
  IN
  IF \E i \in DOMAIN contents : flatten_raises(contents[i], base.selector)
  THEN [got EXCEPT !.ended = "TypeError"]
  ELSE
  LET processed == postprocess(contents, base.selector)
      sorted == [got EXCEPT !.processed = processed]
  IN
  IF uselist /\ processed = << >>
  THEN [sorted EXCEPT !.ended = "IndexError"]
  ELSE
  LET listed == IF uselist THEN OneDict(strip_reserved(processed[1])) ELSE ListOf(processed)
  IN
  IF results
  THEN [sorted EXCEPT !.result = listed]
  ELSE
  LET final == collapse(listed)
      renderer == choose_renderer(options.json, final)
      atoutput == [sorted EXCEPT !.output = TRUE, !.final = final]
  IN
  IF renderer # "none"
  THEN [atoutput EXCEPT !.calls = base.calls \o << renderer >> \o logout_calls(options.logout),
                        !.rendered = final]
  ELSE \* contents is empty here: next(iter(contents)) raises StopIteration,
       \* so the except block is entered whatever nocontent holds
       [atoutput EXCEPT !.ended = "NoContentsFoundForOperationError",
                        !.message = no_contents_message(nocontent, arg)]

getworkerfunction(args, options, readonly, filtervals, results, uselist, selector, leaks, first, second) ==
  LET selector1 == normalize_selector(selector)
      args1 == rewrite_args(args, selector1)
      arg == arg_after_comprehension(args, leaks)
      select_calls == IF selects(filtervals)
                      THEN << [selector |-> selector1, fltrvals |-> filtervals] >>
                      ELSE << >>
      instances == IF selects(filtervals) THEN "instances" ELSE "None"
      call1 == first_getprops(args1, readonly, instances)
      call2 == second_getprops(args1, readonly, instances)
      getprops_calls == IF first.raises THEN << call1, call2 >> ELSE << call1 >>
      answer == IF first.raises THEN second ELSE first
      uselist1 == IF first.raises THEN uselist ELSE uselist_after(readonly, uselist)
      calls == [i \in DOMAIN select_calls |-> "select"]
                 \o [i \in DOMAIN getprops_calls |-> "getprops"]
      answered(a) == IF a.raises THEN "EmptyRaiseForEAFP" ELSE "returned"
      answers == IF first.raises THEN << answered(first), answered(second) >>
                 ELSE << answered(first) >>
      base == [Outcome(selector1, calls, select_calls, getprops_calls)
                 EXCEPT !.answers = answers]
  IN  IF answer.raises
      THEN [base EXCEPT !.ended = "EmptyRaiseForEAFP"]
      ELSE after_retrieval(base, answer.contents, answer.nocontent, uselist1,
                           results, options, arg)

\* -------------------------------------------------------------------- state
VARIABLES
  rdmc_json,       \* self.rdmc.json
  app_selector,    \* self.rdmc.app.selector
  listcomp_leaks,  \* the interpreter leaks a comprehension's variable
  pc,              \* "prompt": no invocation in progress; "returned": one has ended
  entry,           \* how run was entered: "help_disp", "parse_help", "parse_error", "parsed"
  options,         \* the parsed options
  args,            \* the parsed property arguments
  filtr,           \* run's filtr
  worker,          \* what getworkerfunction did (Outcome)
  calls,           \* every collaborator call of the invocation, in order
  exit             \* "SUCCESS", or the name of the exception run raised

vars == << rdmc_json, app_selector, listcomp_leaks, pc, entry, options, args,
           filtr, worker, calls, exit >>

\* ------------------------------------------------------------------ inputs
\* the types selected before the command runs
Selectors ==
  { << "B", "i", "o", "s" >>,
    << "B", "I", "O", "S", ".", "v", "1", "_", "0", "_", "0" >>,
    << "B", "i", "o", "s", "S", "e", "t", "t", "i", "n", "g", "s" >>,
    << "H", "p", "B", "i", "o", "s" >>,
    << "T", "h", "e", "r", "m", "a", "l" >> }

\* property paths a user asks for
PropNames == { << "P" >>, << "A", "T", "T", "R", "I", "B", "U", "T", "E", "S", "/", "Q" >> }

ArgLists == UNION { [1..n -> PropNames] : n \in 0..MaxArgs }

Flags == [json : BOOLEAN, noreadonly : BOOLEAN, logout : BOOLEAN]

\* --filter values of the command's own specification: none, a pair, no pair
Filters == { NoFilter, FilterText(<< " ", "a", "=", "a" >>), FilterText(<< "a" >>) }

\* every --filter text up to MaxFilterLen characters
FilterAlphabet == { "a", "=", " ", "'", "\"" }
FilterTexts == { FilterText(s) : s \in UNION { [1..n -> FilterAlphabet] : n \in 0..MaxFilterLen } }

\* keys of the retrieved resources
K_P == << "P" >>
K_Q == << "Q" >>
K_NAME == << "n", "a", "m", "e" >>
K_ODATA_ID == << "@", "o", "d", "a", "t", "a", ".", "i", "d" >>
K_ODATA_TYPE == << "@", "O", "d", "a", "t", "a", ".", "T", "y", "p", "e" >>

\* what app.getprops can hand back: lists of instance dicts
C_NONE == << >>
C_EMPTY == << << >> >>
C_PLAIN == << << Entry(K_P, Scalar(1)) >> >>
C_META == << << Entry(K_ODATA_ID, Scalar(1)) >> >>
C_BIOS ==
  << << Entry(K_P, Scalar(1)), Entry(K_NAME, Scalar(2)), Entry(K_ODATA_TYPE, Scalar(3)),
        Entry(ATTRIBUTES, Mapping(<< Entry(K_Q, Scalar(4)), Entry(K_P, Scalar(5)) >>)) >> >>
C_SELF == << << Entry(ATTRIBUTES, Mapping(<< Entry(ATTRIBUTES, Scalar(1)), Entry(K_Q, Scalar(2)) >>)) >> >>
C_SCALAR == << << Entry(ATTRIBUTES, Scalar(1)) >> >>
C_TWO == << << Entry(K_Q, Scalar(1)), Entry(K_P, Scalar(2)) >>, << Entry(K_NAME, Scalar(3)) >> >>
C_LATER == << << >>, << Entry(K_P, Scalar(1)) >> >>

Contents == { C_NONE, C_EMPTY, C_PLAIN, C_META, C_BIOS, C_SELF, C_SCALAR, C_TWO, C_LATER }

\* the answers of one getprops call for the properties asked: the sentinel, a
\* list of dicts, or an empty result with every asked property recorded missing
Answers(C, props) ==
  { Raises }
    \cup { Returns(c, {}) : c \in C }
    \cup { Returns(c, { props[i] : i \in DOMAIN props }) : c \in C \cap { C_NONE, C_EMPTY } }

\* ------------------------------------------------------------------ actions
NoOptions == [json |-> FALSE, noreadonly |-> FALSE, logout |-> FALSE, filter |-> NoFilter]
Idle == Outcome(<< >>, << >>, << >>, << >>)

Init ==
  /\ rdmc_json = FALSE
  /\ app_selector \in Selectors
  /\ listcomp_leaks \in BOOLEAN
  /\ pc = "prompt"
  /\ entry = "none"
  /\ options = NoOptions
  /\ args = << >>
  /\ filtr = NoneNone
  /\ worker = Idle
  /\ calls = << >>
  /\ exit = "none"

\* set_json as a plain assignment of the option
set_json_mut(json, option) == option

\* if getattr(options, "json"): self.rdmc.json = True
set_json(json, option) == IF option THEN TRUE ELSE json

\* run_calls with logout_routine in a finally block
run_calls_mut(w) ==
  << "rdmc_parse_arglist", "login_select_validation" >> \o w.calls \o << "logout_routine" >>

\* run's own calls around getworkerfunction: the parser and the validation
\* before it, cmdbase.logout_routine after it when it returned
run_calls(w) ==
  << "rdmc_parse_arglist", "login_select_validation" >> \o w.calls
     \o (IF w.ended = "returned" THEN << "logout_routine" >> ELSE << >>)

\* run(line, help_disp=True): print the help, return SUCCESS
RunHelpDisp ==
  /\ pc = "prompt"
  /\ pc' = "returned"
  /\ entry' = "help_disp"
  /\ calls' = << "print_help" >>
  /\ exit' = "SUCCESS"
  /\ UNCHANGED << rdmc_json, app_selector, listcomp_leaks, options, args, filtr, worker >>

\* run(line) where rdmc_parse_arglist raises: SUCCESS if the line asks for
\* help, InvalidCommandLineErrorOPTS otherwise
RunParseFails ==
  /\ pc = "prompt"
  /\ \E has_help \in BOOLEAN :
       /\ entry' = IF has_help THEN "parse_help" ELSE "parse_error"
       /\ exit' = IF has_help THEN "SUCCESS" ELSE "InvalidCommandLineErrorOPTS"
  /\ pc' = "returned"
  /\ calls' = << "rdmc_parse_arglist" >>
  /\ UNCHANGED << rdmc_json, app_selector, listcomp_leaks, options, args, filtr, worker >>

\* run(line) where the line parses into options and args
RunParsed(F, A, G, C) ==
  /\ pc = "prompt"
  /\ \E flags \in G, filter \in F, a \in A :
       LET opts == [json |-> flags.json, noreadonly |-> flags.noreadonly,
                    logout |-> flags.logout, filter |-> filter]
           parsed == parse_filter(filter)
           props == rewrite_args(a, normalize_selector(app_selector))
       IN
       /\ options' = opts
       /\ args' = a
       /\ rdmc_json' = set_json(rdmc_json, opts.json)
       /\ filtr' = parsed.filtr
       /\ IF parsed.raised
          THEN /\ exit' = "InvalidCommandLineError"
               /\ calls' = << "rdmc_parse_arglist", "login_select_validation" >>
               /\ UNCHANGED << app_selector, worker >>
          ELSE \E first \in Answers(C, props) :
               \E second \in IF first.raises THEN Answers(C, props) ELSE { Raises } :
               \E w \in { getworkerfunction(a, opts, opts.noreadonly, parsed.filtr,
                                            FALSE, TRUE, app_selector, listcomp_leaks,
                                            first, second) } :
                     /\ worker' = w
                     /\ app_selector' = w.selector
                     /\ calls' = run_calls(w)
                     /\ exit' = IF w.ended = "returned" THEN "SUCCESS" ELSE w.ended
  /\ pc' = "returned"
  /\ entry' = "parsed"
  /\ UNCHANGED listcomp_leaks

Run == RunParsed(Filters, ArgLists, Flags, Contents)

\* run has returned or raised: its locals are gone, the next command line is awaited
Prompt ==
  /\ pc = "returned"
  /\ pc' = "prompt"
  /\ entry' = "none"
  /\ options' = NoOptions
  /\ args' = << >>
  /\ filtr' = NoneNone
  /\ worker' = Idle
  /\ calls' = << >>
  /\ exit' = "none"
  /\ UNCHANGED << rdmc_json, app_selector, listcomp_leaks >>

Next == RunHelpDisp \/ RunParseFails \/ Run \/ Prompt

Spec == Init /\ [][Next]_vars

\* The filter parser over every short text: one selected type, plain flags,
\* one retrieval answer.
InitFilter == Init /\ app_selector = << "T", "h", "e", "r", "m", "a", "l" >> /\ ~listcomp_leaks

RunFilter == RunParsed(FilterTexts \cup { NoFilter }, { << >> }, { [json |-> FALSE, noreadonly |-> FALSE, logout |-> FALSE] }, { C_PLAIN })

NextFilter == RunFilter \/ Prompt

SpecFilter == InitFilter /\ [][NextFilter]_vars

\* ================================================================== claims
\* Vocabulary of the claims, stated on the log of an invocation that has ended.
Ended == pc = "returned"
Worked == Ended /\ entry = "parsed" /\ exit # "InvalidCommandLineError"
Count(call) == Cardinality({ i \in DOMAIN calls : calls[i] = call })
Renderers == { "print_out_json", "print_out_human_readable" }
Rendered == \E i \in DOMAIN calls : calls[i] \in Renderers
Retried == Len(worker.getprops_calls) = 2
\* the retrieval returned nothing: an empty list, or one empty dict
RetrievedNothing == worker.got /\ worker.retrieved \in { C_NONE, C_EMPTY }
ReservedKey(k) == k \in HARDCODEDLIST \/ str_in(ODATA, lower(k))

\* C1: whenever the retrieval returns nothing, run fails with
\* NoContentsFoundForOperationError (no other error, no success) and no
\* renderer is called.
C1_NothingRetrievedFails ==
  Worked /\ RetrievedNothing
    => exit = "NoContentsFoundForOperationError" /\ ~Rendered

\* C2: when the retrieval returns nothing and property names were recorded as
\* not found, the error message contains each of those names; the generic
\* "selected type" message is used only when no name was recorded.
C2_MessageNamesMissingProps ==
  Worked /\ RetrievedNothing /\ exit = "NoContentsFoundForOperationError"
    => /\ \A n \in worker.nocontent : str_in(n, worker.message.text)
       /\ worker.message.format = "No get contents found for selected type."
            => worker.nocontent = {}

\* C3 as stated: every invocation of run, however it ends, has called
\* cmdbase.logout_routine exactly once, as its last collaborator call.
C3_TeardownAlwaysLast ==
  Ended => Count("logout_routine") = 1 /\ calls[Len(calls)] = "logout_routine"

\* C3 amended: logout_routine is called exactly once and last, whatever
\* options.logout is, when the line parsed and getworkerfunction returned;
\* the help short-circuits and every raising path do not call it.
C3_TeardownWhenWorkerReturns ==
  Ended =>
    IF entry = "parsed" /\ exit = "SUCCESS"
    THEN Count("logout_routine") = 1 /\ calls[Len(calls)] = "logout_routine"
    ELSE Count("logout_routine") = 0

C3_Witness ==
  /\ Ended /\ entry = "parsed" /\ exit = "SUCCESS"
  /\ Retried /\ Len(worker.select_calls) = 1 /\ ~options.logout
  /\ calls[Len(calls)] = "logout_routine"

\* What C4 says of the calls themselves: at most two getprops calls, the second
\* only after the first raised the sentinel, with the same props, remread off
\* and no instances, and nothing after a second sentinel.
RetryShape ==
  /\ Len(worker.getprops_calls) <= 2
  /\ Retried =>
       /\ worker.answers[1] = "EmptyRaiseForEAFP"
       /\ worker.getprops_calls[2].props = worker.getprops_calls[1].props
       /\ ~worker.getprops_calls[2].remread
       /\ worker.getprops_calls[2].insts = "None"
       /\ worker.answers[2] = "EmptyRaiseForEAFP" => exit = "EmptyRaiseForEAFP" /\ ~Rendered
  /\ ~Retried /\ Len(worker.answers) = 1 => worker.answers[1] = "returned"

\* C4 as stated: the retry shape, and a second call that returns non-empty
\* content is rendered and run returns SUCCESS.
C4_RetryRendersNonEmpty ==
  Worked =>
    /\ RetryShape
    /\ Retried /\ worker.got /\ ~RetrievedNothing => exit = "SUCCESS" /\ Rendered

\* C4 amended: the retry shape, and a second call whose content post-processes
\* (no BIOS "Attributes" entry that is not a mapping) into a first mapping
\* that keeps a key which is neither reserved nor @odata is rendered as that
\* stripped mapping and run returns SUCCESS.
C4_RetryRendersWhatStrippingLeaves ==
  Worked =>
    /\ RetryShape
    /\ ( /\ Retried /\ worker.got /\ worker.ended # "TypeError"
         /\ worker.processed # << >>
         /\ \E i \in DOMAIN worker.processed[1] : ~ReservedKey(worker.processed[1][i].key) )
       => /\ exit = "SUCCESS" /\ Rendered
          /\ ~worker.rendered.islist
          /\ worker.rendered.items[1] =
               SelectSeq(worker.processed[1], LAMBDA e : ~ReservedKey(e.key))

C4_Witness ==
  /\ Worked /\ Retried /\ exit = "SUCCESS" /\ Rendered
  /\ options.noreadonly /\ Len(worker.select_calls) = 1
  /\ worker.retrieved = C_BIOS

ExpectedProp(arg, bios) ==
  IF bios /\ ~str_in(ATTRIBUTES_LOWER, lower(arg)) THEN ATTRIBUTES_SLASH \o arg ELSE arg

PropsAre(bios) ==
  \A c \in DOMAIN worker.getprops_calls :
    /\ Len(worker.getprops_calls[c].props) = Len(args)
    /\ \A i \in DOMAIN args : worker.getprops_calls[c].props[i] = ExpectedProp(args[i], bios)

\* C6 as stated: a selector whose name starts with "bios" (any case) has every
\* argument without "attributes" (any case) prefixed with "Attributes/"; any
\* other selector, and any other argument, passes unchanged.
C6_BiosPrefixRewrites ==
  Worked => PropsAre(startswith(lower(app_selector), << "b", "i", "o", "s" >>))

\* C6 amended: the rewrite happens for the selectors that start with "bios."
\* (any case) once a "." is appended to a name holding none ("Bios",
\* "BIOS.v1_0_0", not "BiosSettings").
C6_BiosDotPrefixRewrites ==
  Worked =>
    PropsAre(\/ startswith(lower(app_selector), << "b", "i", "o", "s", "." >>)
             \/ lower(app_selector) = << "b", "i", "o", "s" >>)

C6_Witness ==
  /\ Worked /\ app_selector = << "B", "i", "o", "s", "." >>
  /\ args = << << "P" >> >>
  /\ worker.getprops_calls[1].props = << << "A", "t", "t", "r", "i", "b", "u", "t", "e", "s", "/", "P" >> >>

\* The filter text as claim C7 reads it: one layer of matching surrounding
\* quotes removed, the "=" signs counted, each side trimmed.
Unquoted(s) ==
  IF Len(s) >= 2 /\ s[1] = s[Len(s)] /\ s[1] \in { "'", "\"" }
  THEN SubSeq(s, 2, Len(s) - 1) ELSE s
Equals(s) == { i \in DOMAIN s : s[i] = "=" }
Trimmed(s) ==
  LET solid == { i \in DOMAIN s : s[i] # " " }
  IN  IF solid = {} THEN << >>
      ELSE SubSeq(s, CHOOSE i \in solid : \A j \in solid : i <= j,
                     CHOOSE i \in solid : \A j \in solid : i >= j)
FilterClaim(s) ==
  LET u == Unquoted(s)
  IN  IF Cardinality(Equals(u)) = 1
      THEN LET e == CHOOSE i \in Equals(u) : TRUE
           IN  /\ exit # "InvalidCommandLineError"
               /\ filtr = [none |-> FALSE, sel |-> Trimmed(SubSeq(u, 1, e - 1)),
                           val |-> Trimmed(SubSeq(u, e + 1, Len(u)))]
      ELSE /\ exit = "InvalidCommandLineError"
           /\ \A i \in DOMAIN calls :
                calls[i] \notin Renderers \cup { "select", "getprops", "logout_routine", "logout.run" }

\* C7 as stated: every --filter text yields the trimmed pair when, unquoted,
\* it has exactly one "=", and otherwise makes run raise
\* InvalidCommandLineError before any select, getprops, render or teardown.
C7_FilterParsesOrRaises ==
  Ended /\ entry = "parsed" /\ options.filter.present => FilterClaim(options.filter.text)

\* C7 amended: the same for every non-empty --filter text (an empty text is
\* taken as no filter at all).
C7_NonEmptyFilterParsesOrRaises ==
  Ended /\ entry = "parsed" /\ options.filter.present /\ options.filter.text # << >>
    => FilterClaim(options.filter.text)

C7_Witness ==
  /\ Ended /\ entry = "parsed" /\ exit = "SUCCESS"
  /\ options.filter.text = << "\"", "a", "=", "a", "\"" >>
  /\ filtr = [none |-> FALSE, sel |-> << "a" >>, val |-> << "a" >>]
  /\ Count("select") = 1

\* non-empty content, as the claim C8 means it: a dict with a key, a list with an element
NonEmpty(c) == IF c.islist THEN Len(c.items) > 0 ELSE Len(c.items[1]) > 0

\* C8: when the post-processed content is non-empty exactly one renderer is
\* called, once: print_out_json iff options.json, print_out_human_readable
\* otherwise, with that content; no renderer is ever called with empty content.
C8_OneRendererByJsonOption ==
  Worked =>
    /\ Count("print_out_json") + Count("print_out_human_readable") <= 1
    /\ worker.output /\ NonEmpty(worker.final) =>
         /\ Count(IF options.json THEN "print_out_json" ELSE "print_out_human_readable") = 1
         /\ Count(IF options.json THEN "print_out_human_readable" ELSE "print_out_json") = 0
         /\ worker.rendered = worker.final
    /\ Rendered => worker.output /\ NonEmpty(worker.final)

C8_Witness ==
  /\ Worked /\ options.json /\ Count("print_out_json") = 1
  /\ worker.retrieved = C_TWO /\ worker.rendered.islist

\* the selector targets BIOS resources: "bios." is in its lower-cased name
TargetsBios == str_in(BIOS_DOT, lower(app_selector))
Nested(d) == dict_get(d, ATTRIBUTES).m

\* What C9 says of one retrieved mapping d and its post-processed form p;
\* promoted is the set of nested keys that must show at top level.
FlattenClaim(d, p, skip) ==
  ATTRIBUTES \in dict_keys(d) /\ dict_get(d, ATTRIBUTES).kind = "map" =>
    IF TargetsBios
    THEN /\ ATTRIBUTES \notin dict_keys(p)
         /\ \A i \in DOMAIN Nested(d) :
              Nested(d)[i].key \notin skip =>
                /\ Nested(d)[i].key \in dict_keys(p)
                /\ dict_get(p, Nested(d)[i].key) = Nested(d)[i].val
    ELSE /\ ATTRIBUTES \in dict_keys(p)
         /\ dict_get(p, ATTRIBUTES) = dict_get(d, ATTRIBUTES)

PostProcessed == Worked /\ worker.got /\ worker.ended # "TypeError"

\* C9 as stated: under a BIOS selector a nested "Attributes" mapping is
\* flattened (no "Attributes" key left, every nested key at top level with its
\* nested value); under any other selector the entry stays as it is.
C9_AttributesFlattened ==
  PostProcessed =>
    \A i \in DOMAIN worker.retrieved :
      FlattenClaim(worker.retrieved[i], worker.processed[i], {})

\* C9 amended: the same, for every nested key other than "Attributes" itself
\* (which is removed with the container), a BIOS selector being one whose name
\* with its "." holds "bios." in any case.
C9_AttributesFlattenedButItself ==
  PostProcessed =>
    \A i \in DOMAIN worker.retrieved :
      FlattenClaim(worker.retrieved[i], worker.processed[i], { ATTRIBUTES })

C9_Witness ==
  /\ PostProcessed /\ TargetsBios /\ worker.retrieved = C_BIOS
  /\ dict_get(worker.processed[1], K_P) = Scalar(5)
  /\ K_Q \in dict_keys(worker.processed[1])

\* C10 as stated: no invocation changes rdmc.json or rdmc.app.selector.
C10_NothingPersists ==
  [][rdmc_json' = rdmc_json /\ app_selector' = app_selector]_vars

\* C10 amended: an invocation changes rdmc.json only from False to True and
\* only when --json is given, and changes rdmc.app.selector only by appending
\* "." to a name that holds none; neither is ever restored.
C10_OnlyJsonSetAndDotAppended ==
  [][ /\ rdmc_json' # rdmc_json => ~rdmc_json /\ rdmc_json' /\ options'.json
      /\ rdmc_json => rdmc_json'
      /\ app_selector' # app_selector =>
           ~str_in(<< "." >>, app_selector) /\ app_selector' = app_selector \o << "." >>
      /\ str_in(<< "." >>, app_selector) => app_selector' = app_selector ]_vars

C10_Witness ==
  /\ Worked /\ ~options.json /\ rdmc_json
  /\ app_selector = << "B", "i", "o", "s", "." >>

====
